---- MODULE Spec2Model ----
(***************************************************************************)
(* Parameter handling of rclpy's Node (rclpy/node.py): the parameter map,  *)
(* the optional set-parameters callback, parameter events, and the         *)
(* declare / undeclare / get / set / set-atomically operations.            *)
(*                                                                         *)
(* Every public method is one action: Python runs a method to completion   *)
(* on the calling thread.  The record `last` keeps what the call in hand   *)
(* was given, what it saw, what it returned or raised, which callback      *)
(* invocations it made and which events it published; the caller then      *)
(* drops the outcome (Return) and is free to make the next call.           *)
(*                                                                         *)
(* The methods take no lock.  SpecThreads runs set_parameters_atomically   *)
(* on one thread, one pass of its loop at a time, while another thread     *)
(* reads the map: the interpreter may switch threads between any two       *)
(* passes.                                                                 *)
(*                                                                         *)
(* SpecEntities is the node as the owner of its publishers,                *)
(* subscriptions, clients, services, timers and guard conditions: the      *)
(* create_* and destroy_* methods and destroy_node.                        *)
(***************************************************************************)
EXTENDS Integers, Sequences, FiniteSets, TLC

VARIABLES
    _parameters,                  \* Node._parameters: name -> Parameter
    _parameters_callback,         \* Node._parameters_callback ("None" or a callback)
    _allow_undeclared_parameters, \* Node._allow_undeclared_parameters
    pending,                      \* accepted batches minus events published, over the whole run
    last,                         \* the most recent call and its outcome
    setter,                       \* a thread inside _set_parameters_atomically: where it is
    observed,                     \* what another thread's read in hand returned
    _handle,                      \* Node._handle: "node", or "None" once destroyed
    publishers,                   \* Node.publishers
    subscriptions,                \* Node.subscriptions
    clients,                      \* Node.clients
    services,                     \* Node.services
    timers,                       \* Node.timers
    guards,                       \* Node.guards
    destroyed,                    \* how often each handle has been handed to a destroy call
    created                       \* how many entities the create_* methods have made

\* The threads of SpecThreads.
threads == <<setter, observed>>

\* The node as the owner of entities (SpecEntities).
entities ==
    <<_handle, publishers, subscriptions, clients, services, timers, guards, destroyed,
      created>>

\* The parameters of the node (Spec, SpecThreads).
parameters_state ==
    <<_parameters, _parameters_callback, _allow_undeclared_parameters, pending>>

vars == <<_parameters, _parameters_callback, _allow_undeclared_parameters, pending, last,
          threads, entities>>

(***************************************************************************)
(* Bounds of the model.                                                    *)
(***************************************************************************)
MaxLen == 2          \* longest list handed to declare / set / set_atomically
MaxEntities == 3     \* entities made by the create_* methods over one run

(***************************************************************************)
(* Inputs.                                                                 *)
(***************************************************************************)
\* Fully qualified names that pass the external topic-name validator.
ValidNames == {"a", "b"}
\* The empty name is rejected by the validator ("must not be empty").
InvalidNames == {""}
Namespaces == {""}

NOT_SET == "NOT_SET"
\* rcl_interfaces ParameterValue messages: a type tag and the value of that type.
ParameterValues ==
    { [type_ |-> NOT_SET,   value |-> "None"],
      [type_ |-> "INTEGER", value |-> "1"],
      [type_ |-> "STRING",  value |-> "x"] }

\* rcl_interfaces ParameterDescriptor, reduced to the one field the node reads.
ParameterDescriptors == { [read_only |-> b] : b \in BOOLEAN }
DefaultDescriptor == [read_only |-> FALSE]

\* rclpy Parameter objects: name, type, value and descriptor.
Parameter(name, type_, value, descriptor) ==
    [name |-> name, type_ |-> type_, value |-> value, descriptor |-> descriptor]

\* Parameter objects a caller can hand to set_parameters / set_parameters_atomically.
\* A NOT_SET parameter is never stored, so one descriptor is enough for it.
Parameters ==
    { Parameter(n, v.type_, v.value, d) :
        n \in ValidNames, v \in ParameterValues, d \in ParameterDescriptors }
    \ { p \in [name : ValidNames, type_ : {NOT_SET}, value : {"None"},
                descriptor : ParameterDescriptors] : p.descriptor # DefaultDescriptor }

\* (name, value, descriptor) tuples a caller can hand to declare_parameters.
\* A tuple with an invalid name never gets past validation, so one value and
\* one descriptor are enough for it.
ParameterTuples ==
    { t \in ValidNames \X ParameterValues \X ParameterDescriptors :
        t[2].type_ = NOT_SET => t[3] = DefaultDescriptor }
    \cup { <<n, [type_ |-> "INTEGER", value |-> "1"], DefaultDescriptor>> : n \in InvalidNames }

\* All lists over S of length at most n.
RECURSIVE ListsUpTo(_, _)
ListsUpTo(S, n) ==
    IF n = 0 THEN { <<>> }
    ELSE LET shorter == ListsUpTo(S, n - 1)
         IN  shorter \cup { Append(l, x) : l \in { s \in shorter : Len(s) = n - 1 }, x \in S }

ParameterLists == ListsUpTo(Parameters, MaxLen)
ParameterTupleLists == ListsUpTo(ParameterTuples, MaxLen)

\* User callbacks that can be registered.  "reject_string" refuses every list
\* holding a STRING parameter and accepts the others, "reject_all" refuses
\* every list.
Callbacks == { "reject_string", "reject_all" }

SetParametersResult(successful, reason) == [successful |-> successful, reason |-> reason]

\* Outcome of the registered user callback on a list of parameters.
CallCallback(callback, parameter_list) ==
    CASE callback = "reject_all"    -> SetParametersResult(FALSE, "rejected")
      [] callback = "reject_string" ->
            IF \E i \in 1..Len(parameter_list) : parameter_list[i].type_ = "STRING"
            THEN SetParametersResult(FALSE, "no strings")
            ELSE SetParametersResult(TRUE, "")

(***************************************************************************)
(* Conversions.                                                            *)
(***************************************************************************)
\* Parameter.to_parameter_msg: the ParameterMsg carries name and value, not
\* the descriptor.
to_parameter_msg(param) ==
    [name |-> param.name, value |-> [type_ |-> param.type_, value |-> param.value]]

\* Parameter.from_parameter_msg(ParameterMsg(name=..., value=...), descriptor)
from_parameter_msg(msg, descriptor) ==
    Parameter(msg.name, msg.value.type_, msg.value.value, descriptor)

ParameterMsg(name, value) == [name |-> name, value |-> value]

\* rclpy_get_validation_error_for_topic_name: "None" or an error.
rclpy_get_validation_error_for_topic_name(name) ==
    IF name \in ValidNames THEN "None" ELSE "invalid"

\* validate_parameter_name: TRUE, or FALSE for "raises InvalidParameterException".
validate_parameter_name(name) ==
    rclpy_get_validation_error_for_topic_name(name) = "None"

(***************************************************************************)
(* Exceptions and call records.                                            *)
(***************************************************************************)
NoException == [type |-> "None", args |-> <<>>]
Exception(type, args) == [type |-> type, args |-> args]

\* What a running call has done so far: the map, the callback invocations
\* (each with the list it was given and the map it could observe), the
\* events published, and the number of batches the callback let through.
Context(parameters) ==
    [parameters |-> parameters, cb_calls |-> <<>>, events |-> <<>>, accepted |-> 0]

EmptyEvent ==
    [new_parameters |-> <<>>, changed_parameters |-> <<>>, deleted_parameters |-> <<>>]

\* `del d[name]`
Remove(parameters, name) ==
    [n \in DOMAIN parameters \ {name} |-> parameters[n]]

\* `d[name] = param`
Store(parameters, name, param) ==
    [n \in DOMAIN parameters \cup {name} |-> IF n = name THEN param ELSE parameters[n]]

(***************************************************************************)
(* Node.has_parameter, Node.get_parameter, Node.get_parameter_or           *)
(***************************************************************************)
has_parameter(parameters, name) == name \in DOMAIN parameters

\* get_parameter without the test of line 355: an undeclared name always raises.
get_parameter_ignoring_allow(parameters, allow_undeclared, name) ==
    IF name \in DOMAIN parameters
    THEN [ret |-> <<parameters[name]>>, exc |-> NoException]
    ELSE [ret |-> <<>>, exc |-> Exception("ParameterNotDeclaredException", <<name>>)]

\* Lines 353-358.  Returns [ret, exc]: ret holds the returned Parameter, if any.
get_parameter(parameters, allow_undeclared, name) ==
    IF has_parameter(parameters, name)
    THEN [ret |-> <<parameters[name]>>, exc |-> NoException]
    ELSE IF allow_undeclared
         THEN [ret |-> <<Parameter(name, NOT_SET, "None", DefaultDescriptor)>>,
               exc |-> NoException]
         ELSE [ret |-> <<>>, exc |-> Exception("ParameterNotDeclaredException", <<name>>)]

\* get_parameter_or that overwrites the caller's alternative (lines 372-373
\* without the `if`).
get_parameter_or_ignoring_alternative(parameters, name, alternative_value) ==
    IF name \in DOMAIN parameters
    THEN parameters[name]
    ELSE Parameter(name, NOT_SET, "None", DefaultDescriptor)

\* Lines 372-375.  alternative_value is <<>> for None, or <<parameter>>.
get_parameter_or(parameters, name, alternative_value) ==
    LET alt == IF alternative_value = <<>>
               THEN Parameter(name, NOT_SET, "None", DefaultDescriptor)
               ELSE alternative_value[1]
    IN  IF name \in DOMAIN parameters THEN parameters[name] ELSE alt

(***************************************************************************)
(* Node._set_parameters_atomically                                         *)
(***************************************************************************)
\* Lines 507-511: the callback's verdict, or success when none is registered.
callback_result(callback, parameter_list) ==
    IF callback # "None"
    THEN CallCallback(callback, parameter_list)
    ELSE SetParametersResult(TRUE, "")

\* The callback invoked once per parameter instead of once per batch.
callback_invocations_per_parameter(ctx, callback, parameter_list) ==
    IF callback # "None"
    THEN ctx.cb_calls \o
         [i \in 1..Len(parameter_list) |->
             [callback |-> callback, args |-> <<parameter_list[i]>>,
              parameters |-> ctx.parameters]]
    ELSE ctx.cb_calls

\* Lines 508-509: the invocation is recorded with the map the callback can see.
callback_invocations(ctx, callback, parameter_list) ==
    IF callback # "None"
    THEN Append(ctx.cb_calls,
                [callback |-> callback, args |-> parameter_list,
                 parameters |-> ctx.parameters])
    ELSE ctx.cb_calls

\* apply_parameter without the `del` of lines 528-529: a deletion is put in
\* the event and the parameter stays in the map.
apply_parameter_keeping_deleted(st, param) ==
    IF NOT_SET = param.type_
    THEN [parameters |-> st.parameters,
          event |->
              IF NOT_SET # get_parameter_or(st.parameters, param.name, <<>>).type_
              THEN [st.event EXCEPT !.deleted_parameters = Append(@, to_parameter_msg(param))]
              ELSE st.event]
    ELSE [parameters |-> Store(st.parameters, param.name, param),
          event |->
              IF NOT_SET = get_parameter_or(st.parameters, param.name, <<>>).type_
              THEN [st.event EXCEPT !.new_parameters = Append(@, to_parameter_msg(param))]
              ELSE [st.event EXCEPT !.changed_parameters = Append(@, to_parameter_msg(param))]]

\* apply_parameter with the `else:` of line 534 lost: a new parameter is put
\* in changed_parameters as well.
apply_parameter_new_also_changed(st, param) ==
    IF NOT_SET = param.type_
    THEN [parameters |->
              IF param.name \in DOMAIN st.parameters
              THEN Remove(st.parameters, param.name)
              ELSE st.parameters,
          event |->
              IF NOT_SET # get_parameter_or(st.parameters, param.name, <<>>).type_
              THEN [st.event EXCEPT !.deleted_parameters = Append(@, to_parameter_msg(param))]
              ELSE st.event]
    ELSE [parameters |-> Store(st.parameters, param.name, param),
          event |->
              IF NOT_SET = get_parameter_or(st.parameters, param.name, <<>>).type_
              THEN [st.event EXCEPT !.new_parameters = Append(@, to_parameter_msg(param)),
                                    !.changed_parameters = Append(@, to_parameter_msg(param))]
              ELSE [st.event EXCEPT !.changed_parameters = Append(@, to_parameter_msg(param))]]

\* apply_parameter without the test of line 522: every NOT_SET entry is put
\* in deleted_parameters.
apply_parameter_always_deleted(st, param) ==
    IF NOT_SET = param.type_
    THEN [parameters |->
              IF param.name \in DOMAIN st.parameters
              THEN Remove(st.parameters, param.name)
              ELSE st.parameters,
          event |->
              [st.event EXCEPT !.deleted_parameters = Append(@, to_parameter_msg(param))]]
    ELSE [parameters |-> Store(st.parameters, param.name, param),
          event |->
              IF NOT_SET = get_parameter_or(st.parameters, param.name, <<>>).type_
              THEN [st.event EXCEPT !.new_parameters = Append(@, to_parameter_msg(param))]
              ELSE [st.event EXCEPT !.changed_parameters = Append(@, to_parameter_msg(param))]]

\* apply_parameter without the NOT_SET branch of lines 521-529: a NOT_SET
\* parameter is stored like any other.
apply_parameter_storing_not_set(st, param) ==
    [parameters |-> Store(st.parameters, param.name, param),
     event |->
         IF NOT_SET = get_parameter_or(st.parameters, param.name, <<>>).type_
         THEN [st.event EXCEPT !.new_parameters = Append(@, to_parameter_msg(param))]
         ELSE [st.event EXCEPT !.changed_parameters = Append(@, to_parameter_msg(param))]]

\* Lines 521-538: one iteration of the loop over the batch.  st carries the
\* map and the event under construction.
apply_parameter(st, param) ==
    IF NOT_SET = param.type_
    THEN [parameters |->
              IF param.name \in DOMAIN st.parameters
              THEN Remove(st.parameters, param.name)
              ELSE st.parameters,
          event |->
              IF NOT_SET # get_parameter_or(st.parameters, param.name, <<>>).type_
              THEN [st.event EXCEPT !.deleted_parameters = Append(@, to_parameter_msg(param))]
              ELSE st.event]
    ELSE [parameters |-> Store(st.parameters, param.name, param),
          event |->
              IF NOT_SET = get_parameter_or(st.parameters, param.name, <<>>).type_
              THEN [st.event EXCEPT !.new_parameters = Append(@, to_parameter_msg(param))]
              ELSE [st.event EXCEPT !.changed_parameters = Append(@, to_parameter_msg(param))]]

\* Line 520: `for param in parameter_list`, from index i on.
RECURSIVE apply_parameters(_, _, _)
apply_parameters(st, parameter_list, i) ==
    IF i > Len(parameter_list) THEN st
    ELSE apply_parameters(apply_parameter(st, parameter_list[i]), parameter_list, i + 1)

\* publish that skips an event with nothing in it.
publish_unless_empty(events, parameter_event) ==
    IF parameter_event = EmptyEvent THEN events ELSE Append(events, parameter_event)

\* Lines 539-540: the publisher hands the event to the middleware.
publish(events, parameter_event) == Append(events, parameter_event)

\* _set_parameters_atomically without the test of line 513: the batch is
\* applied and published whatever the callback said.
_set_parameters_atomically_unconditionally(ctx, callback, parameter_list) ==
    LET result == callback_result(callback, parameter_list)
        calls  == callback_invocations(ctx, callback, parameter_list)
        st == apply_parameters([parameters |-> ctx.parameters, event |-> EmptyEvent],
                               parameter_list, 1)
    IN  [ctx |-> [parameters |-> st.parameters,
                  cb_calls   |-> calls,
                  events     |-> publish(ctx.events, st.event),
                  accepted   |-> ctx.accepted + (IF result.successful THEN 1 ELSE 0)],
         result |-> <<result>>,
         exc |-> NoException]

\* _set_parameters_atomically that refuses a batch naming a stored read_only
\* parameter.
_set_parameters_atomically_respecting_read_only(ctx, callback, parameter_list) ==
    LET result == callback_result(callback, parameter_list)
        calls  == callback_invocations(ctx, callback, parameter_list)
        read_only == \E i \in 1..Len(parameter_list) :
                         /\ parameter_list[i].name \in DOMAIN ctx.parameters
                         /\ ctx.parameters[parameter_list[i].name].descriptor.read_only
    IN  IF read_only
        THEN [ctx |-> ctx,
              result |-> <<SetParametersResult(FALSE, "read only")>>,
              exc |-> NoException]
        ELSE IF result.successful
        THEN LET st == apply_parameters(
                           [parameters |-> ctx.parameters, event |-> EmptyEvent],
                           parameter_list, 1)
             IN  [ctx |-> [parameters |-> st.parameters,
                           cb_calls   |-> calls,
                           events     |-> publish(ctx.events, st.event),
                           accepted   |-> ctx.accepted + 1],
                  result |-> <<result>>,
                  exc |-> NoException]
        ELSE [ctx |-> [ctx EXCEPT !.cb_calls = calls],
              result |-> <<result>>,
              exc |-> NoException]

\* Lines 487-542.  Returns the updated context and the SetParametersResult.
_set_parameters_atomically(ctx, callback, parameter_list) ==
    LET result == callback_result(callback, parameter_list)
        calls  == callback_invocations(ctx, callback, parameter_list)
    IN  IF result.successful
        THEN LET st == apply_parameters(
                           [parameters |-> ctx.parameters, event |-> EmptyEvent],
                           parameter_list, 1)
             IN  [ctx |-> [parameters |-> st.parameters,
                           cb_calls   |-> calls,
                           events     |-> publish(ctx.events, st.event),
                           accepted   |-> ctx.accepted + 1],
                  result |-> <<result>>,
                  exc |-> NoException]
        ELSE [ctx |-> [ctx EXCEPT !.cb_calls = calls],
              result |-> <<result>>,
              exc |-> NoException]

(***************************************************************************)
(* Node.set_parameters_atomically                                          *)
(***************************************************************************)
\* A generator expression handed first to any() and then to list(): any()
\* consumes it up to and including the first true item, list() gets the rest.
RECURSIVE first_true(_, _)
first_true(flags, i) ==
    IF i > Len(flags) THEN 0
    ELSE IF flags[i] THEN i ELSE first_true(flags, i + 1)

any(flags) == first_true(flags, 1) # 0

list_after_any(flags) ==
    IF any(flags) THEN SubSeq(flags, first_true(flags, 1) + 1, Len(flags)) ELSE <<>>

all(flags) == \A i \in 1..Len(flags) : flags[i]

\* Lines 479-481.
undeclared_parameters(parameters, parameter_list) ==
    [i \in 1..Len(parameter_list) |-> parameter_list[i].name \notin DOMAIN parameters]

\* The test of line 482 with all() for any().
raises_not_declared_if_all(allow_undeclared, undeclared) ==
    ~allow_undeclared /\ all(undeclared)

\* Line 482.
raises_not_declared(allow_undeclared, undeclared) ==
    ~allow_undeclared /\ any(undeclared)

\* set_parameters_atomically without the check of lines 479-483.
set_parameters_atomically_unchecked(ctx, allow_undeclared, callback, parameter_list) ==
    _set_parameters_atomically(ctx, callback, parameter_list)

\* Lines 476-485.  Callers pass Parameter objects, so the TypeError of
\* line 477 is not raised.
set_parameters_atomically(ctx, allow_undeclared, callback, parameter_list) ==
    LET undeclared == undeclared_parameters(ctx.parameters, parameter_list)
    IN  IF raises_not_declared(allow_undeclared, undeclared)
        THEN [ctx |-> ctx, result |-> <<>>,
              exc |-> Exception("ParameterNotDeclaredException",
                                <<list_after_any(undeclared)>>)]
        ELSE _set_parameters_atomically(ctx, callback, parameter_list)

(***************************************************************************)
(* Node._set_parameters                                                    *)
(***************************************************************************)
\* Line 442: `setter_func([param])`.  setter_func is "None" (the default,
\* replaced by _set_parameters_atomically at lines 437-438) or the public
\* "set_parameters_atomically".
call_setter(ctx, allow_undeclared, callback, setter_func, parameter_list) ==
    IF setter_func = "None"
    THEN _set_parameters_atomically(ctx, callback, parameter_list)
    ELSE set_parameters_atomically(ctx, allow_undeclared, callback, parameter_list)

\* Lines 440-446, from index i on, with the results gathered so far.
RECURSIVE set_each(_, _, _, _, _, _, _, _)
set_each(ctx, allow_undeclared, callback, parameter_list, setter_func, raise_on_failure, i, results) ==
    IF i > Len(parameter_list)
    THEN [ctx |-> ctx, results |-> results, exc |-> NoException]
    ELSE LET param == parameter_list[i]
             r == call_setter(ctx, allow_undeclared, callback, setter_func, <<param>>)
         IN  IF r.exc # NoException
             THEN [ctx |-> r.ctx, results |-> results, exc |-> r.exc]
             ELSE IF raise_on_failure /\ ~r.result[1].successful
                  THEN [ctx |-> r.ctx, results |-> results,
                        exc |-> Exception("InvalidParameterValueException",
                                          <<param.name, param.value>>)]
                  ELSE set_each(r.ctx, allow_undeclared, callback, parameter_list,
                                setter_func, raise_on_failure, i + 1,
                                Append(results, r.result[1]))

\* Lines 409-446.
_set_parameters(ctx, allow_undeclared, callback, parameter_list, setter_func, raise_on_failure) ==
    set_each(ctx, allow_undeclared, callback, parameter_list, setter_func,
             raise_on_failure, 1, <<>>)

\* set_parameters through the setter that does not check declarations.
set_parameters_unchecked(ctx, allow_undeclared, callback, parameter_list) ==
    _set_parameters(ctx, allow_undeclared, callback, parameter_list, "None", FALSE)

\* set_parameters that checks every name of the list before setting any.
set_parameters_checking_first(ctx, allow_undeclared, callback, parameter_list) ==
    LET undeclared == undeclared_parameters(ctx.parameters, parameter_list)
    IN  IF raises_not_declared(allow_undeclared, undeclared)
        THEN [ctx |-> ctx, results |-> <<>>,
              exc |-> Exception("ParameterNotDeclaredException",
                                <<list_after_any(undeclared)>>)]
        ELSE _set_parameters(ctx, allow_undeclared, callback, parameter_list, "None", FALSE)

\* set_parameters with raise_on_failure set, as on the declare path.
set_parameters_raising(ctx, allow_undeclared, callback, parameter_list) ==
    _set_parameters(ctx, allow_undeclared, callback, parameter_list,
                    "set_parameters_atomically", TRUE)

\* set_parameters handing the whole list to set_parameters_atomically at once.
set_parameters_as_one_batch(ctx, allow_undeclared, callback, parameter_list) ==
    LET r == set_parameters_atomically(ctx, allow_undeclared, callback, parameter_list)
    IN  [ctx |-> r.ctx, results |-> r.result, exc |-> r.exc]

\* Lines 377-407.
set_parameters(ctx, allow_undeclared, callback, parameter_list) ==
    _set_parameters(ctx, allow_undeclared, callback, parameter_list,
                    "set_parameters_atomically", FALSE)

(***************************************************************************)
(* Node.get_parameters                                                     *)
(***************************************************************************)
\* Line 340: the list comprehension, from index i on.  Names are strings, so
\* the TypeError of line 339 is not raised.
RECURSIVE get_each(_, _, _, _, _)
get_each(parameters, allow_undeclared, names, i, got) ==
    IF i > Len(names)
    THEN [ret |-> got, exc |-> NoException]
    ELSE LET r == get_parameter(parameters, allow_undeclared, names[i])
         IN  IF r.exc # NoException
             THEN [ret |-> <<>>, exc |-> r.exc]
             ELSE get_each(parameters, allow_undeclared, names, i + 1,
                           Append(got, r.ret[1]))

get_parameters(parameters, allow_undeclared, names) ==
    get_each(parameters, allow_undeclared, names, 1, <<>>)

(***************************************************************************)
(* Node.declare_parameters                                                 *)
(***************************************************************************)
\* Line 287.
full_name(namespace, parameter_tuple) == namespace \o parameter_tuple[1]

\* Lines 278-291: index of the first tuple whose name fails validation, or 0.
RECURSIVE first_invalid(_, _, _)
first_invalid(namespace, parameters, i) ==
    IF i > Len(parameters) THEN 0
    ELSE IF ~validate_parameter_name(full_name(namespace, parameters[i])) THEN i
    ELSE first_invalid(namespace, parameters, i + 1)

\* Lines 290-291, for every tuple.
build_parameter_list(namespace, parameters) ==
    [i \in 1..Len(parameters) |->
        from_parameter_msg(
            ParameterMsg(full_name(namespace, parameters[i]), parameters[i][2]),
            parameters[i][3])]

\* Lines 293-295.
parameters_already_declared(parameters, parameter_list) ==
    [i \in 1..Len(parameter_list) |-> parameter_list[i].name \in DOMAIN parameters]

\* The test of line 296 with all() for any().
raises_already_declared_if_all(declared) == Len(declared) > 0 /\ all(declared)

\* declare_parameters without the test of line 296.
raises_already_declared_never(declared) == FALSE

\* Line 296.
raises_already_declared(declared) == any(declared)

\* Lines 277-302.  Returns the context, the returned list and the exception.
declare_parameters(ctx, allow_undeclared, callback, namespace, parameters) ==
    LET bad == first_invalid(namespace, parameters, 1)
        parameter_list == build_parameter_list(namespace, parameters)
        declared == parameters_already_declared(ctx.parameters, parameter_list)
    IN  IF bad # 0
        THEN [ctx |-> ctx, ret |-> <<>>,
              exc |-> Exception("InvalidParameterException",
                                <<full_name(namespace, parameters[bad])>>)]
        ELSE IF raises_already_declared(declared)
        THEN [ctx |-> ctx, ret |-> <<>>,
              exc |-> Exception("ParameterAlreadyDeclaredException",
                                <<list_after_any(declared)>>)]
        ELSE LET s == _set_parameters(ctx, allow_undeclared, callback, parameter_list,
                                      "None", TRUE)
             IN  IF s.exc # NoException
                 THEN [ctx |-> s.ctx, ret |-> <<>>, exc |-> s.exc]
                 ELSE LET g == get_parameters(
                                   s.ctx.parameters, allow_undeclared,
                                   [i \in 1..Len(parameter_list) |-> parameter_list[i].name])
                      IN  [ctx |-> s.ctx, ret |-> g.ret, exc |-> g.exc]

(***************************************************************************)
(* Node.undeclare_parameter                                                *)
(***************************************************************************)
\* undeclare_parameter without the test of line 316.
undeclare_parameter_ignoring_read_only(ctx, callback, name) ==
    IF has_parameter(ctx.parameters, name)
    THEN [ctx |-> [ctx EXCEPT !.parameters = Remove(ctx.parameters, name)],
          exc |-> NoException]
    ELSE [ctx |-> ctx, exc |-> Exception("ParameterNotDeclaredException", <<name>>)]

\* undeclare_parameter that removes by setting the parameter to NOT_SET.
undeclare_parameter_by_setting_not_set(ctx, callback, name) ==
    IF has_parameter(ctx.parameters, name)
    THEN IF ctx.parameters[name].descriptor.read_only
         THEN [ctx |-> ctx, exc |-> Exception("ParameterImmutableException", <<name>>)]
         ELSE [ctx |-> _set_parameters_atomically(
                           ctx, callback,
                           <<Parameter(name, NOT_SET, "None", DefaultDescriptor)>>).ctx,
               exc |-> NoException]
    ELSE [ctx |-> ctx, exc |-> Exception("ParameterNotDeclaredException", <<name>>)]

\* undeclare_parameter without the `else` of lines 320-321: an absent name is
\* passed over in silence.
undeclare_parameter_absent_is_noop(ctx, callback, name) ==
    IF has_parameter(ctx.parameters, name)
    THEN IF ctx.parameters[name].descriptor.read_only
         THEN [ctx |-> ctx, exc |-> Exception("ParameterImmutableException", <<name>>)]
         ELSE [ctx |-> [ctx EXCEPT !.parameters = Remove(ctx.parameters, name)],
               exc |-> NoException]
    ELSE [ctx |-> ctx, exc |-> NoException]

\* Lines 315-321.  The method has the node at hand (ctx, callback) and uses
\* of it the parameter map alone.
undeclare_parameter(ctx, callback, name) ==
    IF has_parameter(ctx.parameters, name)
    THEN IF ctx.parameters[name].descriptor.read_only
         THEN [ctx |-> ctx, exc |-> Exception("ParameterImmutableException", <<name>>)]
         ELSE [ctx |-> [ctx EXCEPT !.parameters = Remove(ctx.parameters, name)],
               exc |-> NoException]
    ELSE [ctx |-> ctx, exc |-> Exception("ParameterNotDeclaredException", <<name>>)]

\* set_parameters_callback that keeps a callback already registered.
set_parameters_callback_keeping_first(current, callback) ==
    IF current = "None" THEN callback ELSE current

\* Line 591: the new value of self._parameters_callback.
set_parameters_callback(current, callback) == callback

(***************************************************************************)
(* The node as a state machine.                                            *)
(***************************************************************************)
\* What `last` holds about a finished call.
Call(op, args, pre, ctx, ret, exc) ==
    [op |-> op, args |-> args, pre |-> pre, callback |-> _parameters_callback,
     cb_calls |-> ctx.cb_calls, events |-> ctx.events, accepted |-> ctx.accepted,
     ret |-> ret, exc |-> exc]

\* The caller holds no outcome of a call.
NoCall == [op |-> "None"]

\* The handles the node hands to the destroy calls of the extension: its
\* own, those of its entities, and the clock of each timer.
Kinds == {"publisher", "subscription", "client", "service", "timer", "guard"}
NodeHandle == <<"node", 0>>
Handles == ((Kinds \cup {"clock"}) \X (0..MaxEntities)) \cup {NodeHandle}
\* Line 152: the publisher of parameter events, made by the constructor.
ParameterEventPublisher == <<"publisher", 0>>

\* No thread is inside _set_parameters_atomically; no read is in hand.
NotSetting == [pc |-> "None"]
NotObserving == [op |-> "None"]

\* Lines 112-124: a fresh node has no parameters and no callback.  The
\* constructor's declare/set of lines 155-162 run on the parameters of the
\* launch files, of which there are none here: nothing is declared, and the
\* empty batch of line 162 is accepted and published, one event for one batch.
Init ==
    /\ _parameters = << >>
    /\ _parameters_callback = "None"
    /\ _allow_undeclared_parameters \in BOOLEAN
    /\ pending = 0
    /\ last = NoCall
    /\ setter = NotSetting
    /\ observed = NotObserving
    /\ _handle = "node"
    /\ publishers = <<ParameterEventPublisher>>
    /\ subscriptions = <<>>
    /\ clients = <<>>
    /\ services = <<>>
    /\ timers = <<>>
    /\ guards = <<>>
    /\ destroyed = [h \in Handles |-> 0]
    /\ created = 0

\* The effect of a finished call on the node.
Finish(op, args, ctx, ret, exc) ==
    /\ _parameters' = ctx.parameters
    /\ pending' = pending + ctx.accepted - Len(ctx.events)
    /\ last' = Call(op, args, _parameters, ctx, ret, exc)
    /\ UNCHANGED <<_parameters_callback, _allow_undeclared_parameters, threads, entities>>

DeclareParameters ==
    /\ last = NoCall
    /\ \E namespace \in Namespaces, parameters \in ParameterTupleLists :
           LET r == declare_parameters(Context(_parameters), _allow_undeclared_parameters,
                                       _parameters_callback, namespace, parameters)
           IN  Finish("declare_parameters", <<namespace, parameters>>, r.ctx, r.ret, r.exc)

UndeclareParameter ==
    /\ last = NoCall
    /\ \E name \in ValidNames :
           LET r == undeclare_parameter(Context(_parameters), _parameters_callback, name)
           IN  Finish("undeclare_parameter", <<name>>, r.ctx, <<>>, r.exc)

GetParameter ==
    /\ last = NoCall
    /\ \E name \in ValidNames :
           LET r == get_parameter(_parameters, _allow_undeclared_parameters, name)
           IN  Finish("get_parameter", <<name>>, Context(_parameters), r.ret, r.exc)

\* The alternative values a caller hands to get_parameter_or: None, or a
\* parameter of its own making.
Alternatives == { <<>> } \cup { <<p>> : p \in Parameters }

GetParameterOr ==
    /\ last = NoCall
    /\ \E name \in ValidNames, alternative_value \in Alternatives :
           Finish("get_parameter_or", <<name, alternative_value>>, Context(_parameters),
                  <<get_parameter_or(_parameters, name, alternative_value)>>, NoException)

SetParameters ==
    /\ last = NoCall
    /\ \E parameter_list \in ParameterLists :
           LET r == set_parameters(Context(_parameters), _allow_undeclared_parameters,
                                   _parameters_callback, parameter_list)
           IN  Finish("set_parameters", <<parameter_list>>, r.ctx, r.results, r.exc)

SetParametersAtomically ==
    /\ last = NoCall
    /\ \E parameter_list \in ParameterLists :
           LET r == set_parameters_atomically(Context(_parameters),
                                              _allow_undeclared_parameters,
                                              _parameters_callback, parameter_list)
           IN  Finish("set_parameters_atomically", <<parameter_list>>, r.ctx, r.result, r.exc)

\* Lines 580-591.  The record keeps, as for every call, the callback that was
\* registered when the call began.
SetParametersCallback ==
    /\ last = NoCall
    /\ \E callback \in Callbacks :
           /\ _parameters_callback' = set_parameters_callback(_parameters_callback, callback)
           /\ last' = Call("set_parameters_callback", <<callback>>, _parameters,
                           Context(_parameters), <<>>, NoException)
           /\ UNCHANGED <<_parameters, _allow_undeclared_parameters, pending, threads,
                          entities>>

\* The caller is done with the outcome of its call.
Return ==
    /\ last # NoCall
    /\ last' = NoCall
    /\ last.op # "__del__"
    /\ UNCHANGED <<parameters_state, threads, entities>>

Next ==
    \/ DeclareParameters
    \/ UndeclareParameter
    \/ GetParameter
    \/ GetParameterOr
    \/ SetParameters
    \/ SetParametersAtomically
    \/ SetParametersCallback
    \/ Return

Spec == Init /\ [][Next]_vars

(***************************************************************************)
(* The node with two threads and no lock.                                  *)
(***************************************************************************)
\* Lines 479-485 and 507-519: a thread calls set_parameters_atomically; the
\* list passes the declaration check and the callback, and the thread
\* stands before the loop of line 520.  A list that does not pass leaves
\* the node as it is.
AtomicSetBegin ==
    /\ setter = NotSetting
    /\ observed = NotObserving
    /\ \E parameter_list \in ParameterLists :
           /\ ~raises_not_declared(_allow_undeclared_parameters,
                                   undeclared_parameters(_parameters, parameter_list))
           /\ callback_result(_parameters_callback, parameter_list).successful
           /\ setter' = [pc |-> "loop", parameter_list |-> parameter_list, i |-> 1,
                         parameter_event |-> EmptyEvent, pre |-> _parameters]
    /\ UNCHANGED <<parameters_state, last, observed, entities>>

\* Lines 520-538: one pass of the loop.
AtomicSetLoop ==
    /\ setter.pc = "loop"
    /\ observed = NotObserving
    /\ setter.i <= Len(setter.parameter_list)
    /\ LET st == apply_parameter([parameters |-> _parameters,
                                  event |-> setter.parameter_event],
                                 setter.parameter_list[setter.i])
       IN  /\ _parameters' = st.parameters
           /\ setter' = [setter EXCEPT !.i = @ + 1, !.parameter_event = st.event]
    /\ UNCHANGED <<_parameters_callback, _allow_undeclared_parameters, pending, last,
                   observed, entities>>

\* Lines 539-542: the loop is over, the event is published and the method
\* returns.
AtomicSetPublish ==
    /\ setter.pc = "loop"
    /\ observed = NotObserving
    /\ setter.i > Len(setter.parameter_list)
    /\ setter' = NotSetting
    /\ pending' = pending + 1 - Len(publish(<<>>, setter.parameter_event))
    /\ UNCHANGED <<_parameters, _parameters_callback, _allow_undeclared_parameters, last,
                   observed, entities>>

\* Lines 323-325 and 353-358: another thread calls has_parameter or
\* get_parameter, wherever the first thread is.
OtherThreadReads ==
    /\ observed = NotObserving
    /\ \E name \in ValidNames :
           \/ observed' = [op |-> "has_parameter", name |-> name,
                           ret |-> <<has_parameter(_parameters, name)>>,
                           exc |-> NoException]
           \/ LET r == get_parameter(_parameters, _allow_undeclared_parameters, name)
              IN  observed' = [op |-> "get_parameter", name |-> name,
                               ret |-> r.ret, exc |-> r.exc]
    /\ UNCHANGED <<parameters_state, last, setter, entities>>

\* The other thread is done with what it read.
OtherThreadReturns ==
    /\ observed # NotObserving
    /\ observed' = NotObserving
    /\ UNCHANGED <<parameters_state, last, setter, entities>>

NextThreads ==
    \/ AtomicSetBegin
    \/ AtomicSetLoop
    \/ AtomicSetPublish
    \/ OtherThreadReads
    \/ OtherThreadReturns

SpecThreads == Init /\ [][NextThreads]_vars

(***************************************************************************)
(* The node as the owner of its entities.                                  *)
(***************************************************************************)
\* The node's handle, its lists and the destroy calls made so far, as one
\* value for the methods to work on.
Node ==
    [_handle |-> _handle, publishers |-> publishers, subscriptions |-> subscriptions,
     clients |-> clients, services |-> services, timers |-> timers, guards |-> guards,
     destroyed |-> destroyed]

\* `list.remove(entity)`; an entity is in a list once.
remove(list, entity) == SelectSeq(list, LAMBDA e : e # entity)

\* `entity in list`, and the loops of lines 818-819, 843-844, 856-857,
\* 869-870 and 884-885 that look for the entity with a given handle.
contains(list, entity) == \E i \in 1..Len(list) : list[i] = entity

\* _rclpy.rclpy_destroy_entity, _rclpy.rclpy_destroy_node_entity and
\* Subscription.destroy: one more destroy call on the handle.
rclpy_destroy_entity(count, handle) == [count EXCEPT ![handle] = @ + 1]

\* Lines 872-873 and 929-930: `tmr.clock._clock_handle`, each timer having a
\* clock of its own.
clock_of(timer) == <<"clock", timer[2]>>

\* Lines 618-645, 647-690, 692-729, 731-770: the new entity is appended to
\* its list.
create_publisher(n, publisher) == [n EXCEPT !.publishers = Append(@, publisher)]
create_subscription(n, subscription) == [n EXCEPT !.subscriptions = Append(@, subscription)]
create_client(n, client) == [n EXCEPT !.clients = Append(@, client)]
create_service(n, service) == [n EXCEPT !.services = Append(@, service)]
\* Lines 772-796 and 798-810.
create_timer(n, timer) == [n EXCEPT !.timers = Append(@, timer)]
create_guard_condition(n, guard) == [n EXCEPT !.guards = Append(@, guard)]

\* Lines 812-823.
destroy_publisher(n, publisher) ==
    IF contains(n.publishers, publisher)
    THEN [node |-> [n EXCEPT !.destroyed = rclpy_destroy_entity(@, publisher),
                             !.publishers = remove(@, publisher)],
          ret |-> TRUE]
    ELSE [node |-> n, ret |-> FALSE]

\* Lines 825-835.
destroy_subscription(n, subscription) ==
    IF contains(n.subscriptions, subscription)
    THEN [node |-> [n EXCEPT !.subscriptions = remove(@, subscription),
                             !.destroyed = rclpy_destroy_entity(@, subscription)],
          ret |-> TRUE]
    ELSE [node |-> n, ret |-> FALSE]

\* Lines 837-848.
destroy_client(n, client) ==
    IF contains(n.clients, client)
    THEN [node |-> [n EXCEPT !.destroyed = rclpy_destroy_entity(@, client),
                             !.clients = remove(@, client)],
          ret |-> TRUE]
    ELSE [node |-> n, ret |-> FALSE]

\* Lines 850-861.
destroy_service(n, service) ==
    IF contains(n.services, service)
    THEN [node |-> [n EXCEPT !.destroyed = rclpy_destroy_entity(@, service),
                             !.services = remove(@, service)],
          ret |-> TRUE]
    ELSE [node |-> n, ret |-> FALSE]

\* Lines 863-876: the timer's handle and its clock's.
destroy_timer(n, timer) ==
    IF contains(n.timers, timer)
    THEN [node |-> [n EXCEPT !.destroyed = rclpy_destroy_entity(
                                               rclpy_destroy_entity(@, timer),
                                               clock_of(timer)),
                             !.timers = remove(@, timer)],
          ret |-> TRUE]
    ELSE [node |-> n, ret |-> FALSE]

\* Lines 878-889.
destroy_guard_condition(n, guard) ==
    IF contains(n.guards, guard)
    THEN [node |-> [n EXCEPT !.destroyed = rclpy_destroy_entity(@, guard),
                             !.guards = remove(@, guard)],
          ret |-> TRUE]
    ELSE [node |-> n, ret |-> FALSE]

\* `while list: entity = list.pop(); destroy(entity)`: the destroy calls made
\* while a list is emptied from its end.
RECURSIVE pop_and_destroy(_, _)
pop_and_destroy(count, list) ==
    IF list = <<>>
    THEN count
    ELSE pop_and_destroy(rclpy_destroy_entity(count, list[Len(list)]),
                         SubSeq(list, 1, Len(list) - 1))

\* Lines 926-930: the same for the timers, each with its clock.
RECURSIVE pop_and_destroy_timers(_, _)
pop_and_destroy_timers(count, list) ==
    IF list = <<>>
    THEN count
    ELSE pop_and_destroy_timers(
             rclpy_destroy_entity(rclpy_destroy_entity(count, list[Len(list)]),
                                  clock_of(list[Len(list)])),
             SubSeq(list, 1, Len(list) - 1))

\* Lines 906-937.
destroy_node(n) ==
    IF n._handle = "None"
    THEN [node |-> n, ret |-> TRUE]
    ELSE LET d1 == pop_and_destroy(n.destroyed, n.publishers)
             d2 == pop_and_destroy(d1, n.subscriptions)
             d3 == pop_and_destroy(d2, n.clients)
             d4 == pop_and_destroy(d3, n.services)
             d5 == pop_and_destroy_timers(d4, n.timers)
             d6 == pop_and_destroy(d5, n.guards)
         IN  [node |-> [_handle |-> "None", publishers |-> <<>>, subscriptions |-> <<>>,
                        clients |-> <<>>, services |-> <<>>, timers |-> <<>>,
                        guards |-> <<>>,
                        destroyed |-> rclpy_destroy_entity(d6, NodeHandle)],
              ret |-> TRUE]

\* The effect of a finished call on the node and what the caller holds of it.
FinishEntityCall(op, args, n, ret) ==
    /\ _handle' = n._handle
    /\ publishers' = n.publishers
    /\ subscriptions' = n.subscriptions
    /\ clients' = n.clients
    /\ services' = n.services
    /\ timers' = n.timers
    /\ guards' = n.guards
    /\ destroyed' = n.destroyed
    /\ last' = [op |-> op, args |-> args, pre |-> Node, ret |-> ret]
    /\ UNCHANGED <<parameters_state, threads>>

\* One more entity can be made.
CanCreate == last = NoCall /\ created < MaxEntities

\* Lines 637-638, 676-677, 714-717 and 756-759 hand self.handle to the
\* extension, which makes nothing for a node that has no handle.
CreatePublisher ==
    /\ CanCreate
    /\ _handle # "None"
    /\ created' = created + 1
    /\ FinishEntityCall("create_publisher", <<>>,
                        create_publisher(Node, <<"publisher", created + 1>>),
                        <<<<"publisher", created + 1>>>>)

CreateSubscription ==
    /\ CanCreate
    /\ _handle # "None"
    /\ created' = created + 1
    /\ FinishEntityCall("create_subscription", <<>>,
                        create_subscription(Node, <<"subscription", created + 1>>),
                        <<<<"subscription", created + 1>>>>)

CreateClient ==
    /\ CanCreate
    /\ _handle # "None"
    /\ created' = created + 1
    /\ FinishEntityCall("create_client", <<>>,
                        create_client(Node, <<"client", created + 1>>),
                        <<<<"client", created + 1>>>>)

CreateService ==
    /\ CanCreate
    /\ _handle # "None"
    /\ created' = created + 1
    /\ FinishEntityCall("create_service", <<>>,
                        create_service(Node, <<"service", created + 1>>),
                        <<<<"service", created + 1>>>>)

\* Lines 772-796 and 798-810 use the context and the callback group, not the
\* handle: they do their work whether the node has been destroyed or not.
CreateTimer ==
    /\ CanCreate
    /\ created' = created + 1
    /\ FinishEntityCall("create_timer", <<>>,
                        create_timer(Node, <<"timer", created + 1>>),
                        <<<<"timer", created + 1>>>>)

CreateGuardCondition ==
    /\ CanCreate
    /\ created' = created + 1
    /\ FinishEntityCall("create_guard_condition", <<>>,
                        create_guard_condition(Node, <<"guard", created + 1>>),
                        <<<<"guard", created + 1>>>>)

\* The entities of a kind a caller can hold: those made so far, destroyed or
\* not, and the publisher of the constructor.
Made(kind) == { <<kind, id>> : id \in 0..created }

DestroyPublisher ==
    /\ last = NoCall
    /\ \E publisher \in Made("publisher") :
           LET r == destroy_publisher(Node, publisher)
           IN  FinishEntityCall("destroy_publisher", <<publisher>>, r.node, <<r.ret>>)
    /\ UNCHANGED created

DestroySubscription ==
    /\ last = NoCall
    /\ \E subscription \in Made("subscription") :
           LET r == destroy_subscription(Node, subscription)
           IN  FinishEntityCall("destroy_subscription", <<subscription>>, r.node, <<r.ret>>)
    /\ UNCHANGED created

DestroyClient ==
    /\ last = NoCall
    /\ \E client \in Made("client") :
           LET r == destroy_client(Node, client)
           IN  FinishEntityCall("destroy_client", <<client>>, r.node, <<r.ret>>)
    /\ UNCHANGED created

DestroyService ==
    /\ last = NoCall
    /\ \E service \in Made("service") :
           LET r == destroy_service(Node, service)
           IN  FinishEntityCall("destroy_service", <<service>>, r.node, <<r.ret>>)
    /\ UNCHANGED created

DestroyTimer ==
    /\ last = NoCall
    /\ \E timer \in Made("timer") :
           LET r == destroy_timer(Node, timer)
           IN  FinishEntityCall("destroy_timer", <<timer>>, r.node, <<r.ret>>)
    /\ UNCHANGED created

DestroyGuardCondition ==
    /\ last = NoCall
    /\ \E guard \in Made("guard") :
           LET r == destroy_guard_condition(Node, guard)
           IN  FinishEntityCall("destroy_guard_condition", <<guard>>, r.node, <<r.ret>>)
    /\ UNCHANGED created

DestroyNode ==
    /\ last = NoCall
    /\ LET r == destroy_node(Node)
       IN  FinishEntityCall("destroy_node", <<>>, r.node, <<r.ret>>)
    /\ UNCHANGED created

\* Lines 1053-1054: the interpreter finalizes the node, after which nothing
\* can be called on it.
Del ==
    /\ last = NoCall
    /\ LET r == destroy_node(Node)
       IN  FinishEntityCall("__del__", <<>>, r.node, <<r.ret>>)
    /\ UNCHANGED created

NextEntities ==
    \/ CreatePublisher
    \/ CreateSubscription
    \/ CreateClient
    \/ CreateService
    \/ CreateTimer
    \/ CreateGuardCondition
    \/ DestroyPublisher
    \/ DestroySubscription
    \/ DestroyClient
    \/ DestroyService
    \/ DestroyTimer
    \/ DestroyGuardCondition
    \/ DestroyNode
    \/ Del
    \/ Return

\* Line 93: undeclared parameters are not allowed unless asked for.
InitEntities ==
    /\ _allow_undeclared_parameters = FALSE
    /\ Init

SpecEntities == InitEntities /\ [][NextEntities]_vars

(***************************************************************************)
(* Vocabulary of the properties.                                           *)
(***************************************************************************)
\* The call in hand is set_parameters_atomically; Batch is its list.
AtomicCall == last.op = "set_parameters_atomically"
Batch == last.args[1]
\* It passed the declaration check (did not raise).
AtomicPassed == AtomicCall /\ last.exc = NoException
\* The verdict on the batch.
AtomicAccepted == AtomicPassed /\ last.ret[1].successful
AtomicRejected == AtomicPassed /\ ~last.ret[1].successful
\* The one event of an accepted batch.
Event == last.events[1]

Range(seq) == { seq[i] : i \in 1..Len(seq) }
Names(seq) == { seq[i].name : i \in 1..Len(seq) }
Distinct(seq) == \A i, j \in 1..Len(seq) : seq[i].name = seq[j].name => i = j
\* Entry i is the last one of the batch for its name.
LastForName(seq, i) == \A j \in (i + 1)..Len(seq) : seq[j].name # seq[i].name
\* The stored state of one name: <<>> when absent, else <<Parameter>>.
Stored(parameters, name) ==
    IF name \in DOMAIN parameters THEN <<parameters[name]>> ELSE <<>>
\* Whether entry i of the batch finds its name present, given the entries
\* before it: the nearest earlier entry for the name decides, else the map
\* as it was when the call began.
PresentBefore(seq, pre, i) ==
    LET earlier == { j \in 1..(i - 1) : seq[j].name = seq[i].name }
    IN  IF earlier = {}
        THEN seq[i].name \in DOMAIN pre
        ELSE seq[CHOOSE j \in earlier : \A k \in earlier : k <= j].type_ # NOT_SET

(***************************************************************************)
(* C1: set_atomically on a batch for which the validation callback reports *)
(* failure leaves every name's stored parameter as it was before the call, *)
(* publishes no change event, and returns the callback's result as-is      *)
(* without raising.                                                        *)
(***************************************************************************)
C1_Reported ==
    /\ AtomicCall
    /\ last.cb_calls # <<>>
    /\ ~CallCallback(last.callback, Batch).successful

C1_RejectedBatchChangesNothing ==
    C1_Reported =>
        /\ \A name \in ValidNames : Stored(_parameters, name) = Stored(last.pre, name)
        /\ DOMAIN _parameters = DOMAIN last.pre
        /\ last.events = <<>>
        /\ last.exc = NoException
        /\ last.ret = <<CallCallback(last.callback, Batch)>>

\* A rejected batch of two entries that would have inserted, overwritten or
\* removed something had it been applied.
C1_Witness ==
    /\ C1_Reported
    /\ Len(Batch) = 2
    /\ apply_parameters([parameters |-> last.pre, event |-> EmptyEvent], Batch, 1).parameters
           # last.pre

(***************************************************************************)
(* C2 as claimed: on a successful set_atomically batch, every NOT_SET      *)
(* entry whose name was in the store before the call is in                 *)
(* deleted_parameters and absent from the store afterward; every           *)
(* non-NOT_SET entry whose name was absent before the call is in           *)
(* new_parameters and in the store afterward; every non-NOT_SET entry      *)
(* whose name was present before the call is in changed_parameters and the *)
(* store holds it.                                                         *)
(***************************************************************************)
C2_AsClaimed ==
    AtomicAccepted =>
        \A i \in 1..Len(Batch) :
            LET param == Batch[i]
                was == param.name \in DOMAIN last.pre
            IN  /\ (param.type_ = NOT_SET /\ was) =>
                       /\ to_parameter_msg(param) \in Range(Event.deleted_parameters)
                       /\ param.name \notin DOMAIN _parameters
                /\ (param.type_ # NOT_SET /\ ~was) =>
                       /\ to_parameter_msg(param) \in Range(Event.new_parameters)
                       /\ param.name \in DOMAIN _parameters
                /\ (param.type_ # NOT_SET /\ was) =>
                       /\ to_parameter_msg(param) \in Range(Event.changed_parameters)
                       /\ Stored(_parameters, param.name) = <<param>>

(***************************************************************************)
(* C2 as amended: the same, with "before" read entry by entry - an entry   *)
(* is classified against the store as the entries before it in the batch   *)
(* left it - and with the store afterward holding, for each name, what the *)
(* last entry of the batch for that name says.  For a batch that names no  *)
(* parameter twice this is the claim as written.                           *)
(***************************************************************************)
C2_ClassifiedEntryByEntry ==
    AtomicAccepted =>
        \A i \in 1..Len(Batch) :
            LET param == Batch[i]
                was == PresentBefore(Batch, last.pre, i)
            IN  /\ (param.type_ = NOT_SET /\ was) =>
                       to_parameter_msg(param) \in Range(Event.deleted_parameters)
                /\ (param.type_ # NOT_SET /\ ~was) =>
                       to_parameter_msg(param) \in Range(Event.new_parameters)
                /\ (param.type_ # NOT_SET /\ was) =>
                       to_parameter_msg(param) \in Range(Event.changed_parameters)
                /\ (LastForName(Batch, i) /\ param.type_ = NOT_SET) =>
                       param.name \notin DOMAIN _parameters
                /\ (LastForName(Batch, i) /\ param.type_ # NOT_SET) =>
                       Stored(_parameters, param.name) = <<param>>

\* An accepted batch that deletes one stored parameter and overwrites another.
C2_Witness ==
    /\ AtomicAccepted
    /\ Distinct(Batch)
    /\ \E i, j \in 1..Len(Batch) :
           /\ Batch[i].type_ = NOT_SET /\ Batch[i].name \in DOMAIN last.pre
           /\ Batch[j].type_ # NOT_SET /\ Batch[j].name \in DOMAIN last.pre
           /\ Stored(last.pre, Batch[j].name) # <<Batch[j]>>

(***************************************************************************)
(* C3 as claimed: for every successful set_atomically batch, also one that *)
(* names a parameter more than once, the name sets of new_parameters,      *)
(* changed_parameters and deleted_parameters of the published event are    *)
(* pairwise disjoint.                                                      *)
(***************************************************************************)
NewNames == Names(Event.new_parameters)
ChangedNames == Names(Event.changed_parameters)
DeletedNames == Names(Event.deleted_parameters)
ListedNames == NewNames \cup ChangedNames \cup DeletedNames

C3_AsClaimed ==
    AtomicAccepted =>
        /\ NewNames \cap ChangedNames = {}
        /\ NewNames \cap DeletedNames = {}
        /\ ChangedNames \cap DeletedNames = {}

(***************************************************************************)
(* C3 as amended: for every successful set_atomically batch, a name is in  *)
(* more than one of new_parameters, changed_parameters and                 *)
(* deleted_parameters only if the batch names it more than once; for a     *)
(* batch of pairwise distinct names the three name sets are pairwise       *)
(* disjoint.                                                               *)
(***************************************************************************)
C3_DisjointUnlessNamedTwice ==
    AtomicAccepted =>
        \A name \in (NewNames \cap ChangedNames) \cup (NewNames \cap DeletedNames)
                    \cup (ChangedNames \cap DeletedNames) :
            \E i, j \in 1..Len(Batch) :
                i # j /\ Batch[i].name = name /\ Batch[j].name = name

\* An accepted batch of two distinct names, one new and one changed.
C3_Witness ==
    /\ AtomicAccepted
    /\ Distinct(Batch)
    /\ NewNames # {}
    /\ ChangedNames # {}

(***************************************************************************)
(* C4 as claimed: for every successful set_atomically batch, a batch name  *)
(* is in none of new_parameters, changed_parameters, deleted_parameters if *)
(* and only if the call left that name's stored state unchanged.           *)
(***************************************************************************)
C4_AsClaimed ==
    AtomicAccepted =>
        \A name \in Names(Batch) :
            (name \notin ListedNames) <=>
                (Stored(_parameters, name) = Stored(last.pre, name))

(***************************************************************************)
(* C4 as amended: for every successful set_atomically batch, the three     *)
(* lists name batch names only; a batch name is in none of them if and     *)
(* only if it was absent before the call and every entry for it is         *)
(* NOT_SET; a name in none of them has its stored state unchanged, so      *)
(* every name whose stored state changed is listed.  (Not the converse: an *)
(* overwrite by an equal parameter is listed as changed.)                  *)
(***************************************************************************)
C4_ListedCoversEveryEffect ==
    AtomicAccepted =>
        /\ ListedNames \subseteq Names(Batch)
        /\ \A name \in Names(Batch) :
               (name \notin ListedNames) <=>
                   /\ name \notin DOMAIN last.pre
                   /\ \A i \in 1..Len(Batch) :
                          Batch[i].name = name => Batch[i].type_ = NOT_SET
        /\ \A name \in ValidNames :
               name \notin ListedNames =>
                   Stored(_parameters, name) = Stored(last.pre, name)

\* An accepted batch with a NOT_SET entry for an absent name beside an entry
\* that changes the store.
C4_Witness ==
    /\ AtomicAccepted
    /\ _parameters # last.pre
    /\ \E i \in 1..Len(Batch) :
           /\ Batch[i].type_ = NOT_SET
           /\ Batch[i].name \notin DOMAIN last.pre
           /\ Batch[i].name \notin ListedNames

(***************************************************************************)
(* C5: every set_atomically call whose batch is accepted publishes exactly *)
(* one change event that summarizes the whole batch (also for an empty     *)
(* batch and for a batch of several parameters); a call whose batch is     *)
(* rejected, or that raises, publishes none; and over any sequence of      *)
(* operations the number of events published equals the number of batches  *)
(* accepted.                                                               *)
(***************************************************************************)
\* Entries of the batch that insert, overwrite or remove.
Effective(seq, pre) ==
    { i \in 1..Len(seq) : seq[i].type_ # NOT_SET \/ PresentBefore(seq, pre, i) }

C6_CallbackOncePerBatch ==
    AtomicPassed =>
        IF last.callback # "None"
        THEN last.cb_calls = << [callback |-> last.callback, args |-> Batch,
                                 parameters |-> last.pre] >>
        ELSE /\ last.cb_calls = <<>>
             /\ last.ret[1].successful
             /\ Len(last.events) = 1

\* A registered callback accepted a batch of two that changed the store.
C6_Witness ==
    /\ AtomicAccepted
    /\ last.callback # "None"
    /\ Len(Batch) = 2
    /\ Len(last.cb_calls) = 1
    /\ _parameters # last.pre

(***************************************************************************)
(* C7: set_parameters_atomically is all-or-nothing.  When undeclared       *)
(* parameters are not allowed and at least one name of the batch is absent *)
(* from the store, it raises ParameterNotDeclaredException and sets        *)
(* nothing (store unchanged, callback not invoked, no event).  Otherwise   *)
(* it does not raise, and either all parameters of the batch are set (for  *)
(* each name the store holds what the batch's last entry for it says) or   *)
(* none of them are; names outside the batch are untouched.                *)
(***************************************************************************)
AllSet ==
    \A i \in 1..Len(Batch) :
        LastForName(Batch, i) =>
            IF Batch[i].type_ = NOT_SET
            THEN Batch[i].name \notin DOMAIN _parameters
            ELSE Stored(_parameters, Batch[i].name) = <<Batch[i]>>

NoneSet == _parameters = last.pre

C7_AllOrNothing ==
    AtomicCall =>
        IF /\ ~_allow_undeclared_parameters
           /\ \E i \in 1..Len(Batch) : Batch[i].name \notin DOMAIN last.pre
        THEN /\ last.exc.type = "ParameterNotDeclaredException"
             /\ NoneSet
             /\ last.cb_calls = <<>>
             /\ last.events = <<>>
        ELSE /\ last.exc = NoException
             /\ AllSet \/ NoneSet
             /\ \A name \in ValidNames \ Names(Batch) :
                    Stored(_parameters, name) = Stored(last.pre, name)

\* A batch of one declared and one undeclared name, refused as a whole.
C7_Witness ==
    /\ AtomicCall
    /\ ~_allow_undeclared_parameters
    /\ Len(Batch) = 2
    /\ Batch[1].name \in DOMAIN last.pre
    /\ Batch[2].name \notin DOMAIN last.pre
    /\ Stored(last.pre, Batch[1].name) # <<Batch[1]>>
    /\ last.exc.type = "ParameterNotDeclaredException"

(***************************************************************************)
(* C8 as claimed: declare on a list in which any fully qualified name is   *)
(* already in the store always fails with ParameterAlreadyDeclared and     *)
(* leaves the store unchanged, without invoking the callback or publishing *)
(* an event.                                                               *)
(***************************************************************************)
DeclareCall == last.op = "declare_parameters"
Namespace == last.args[1]
Tuples == last.args[2]
Declared == build_parameter_list(Namespace, Tuples)
SomeAlreadyDeclared ==
    DeclareCall /\ \E i \in 1..Len(Tuples) : Declared[i].name \in DOMAIN last.pre
SomeInvalid ==
    \E i \in 1..Len(Tuples) : Declared[i].name \notin ValidNames

C8_AsClaimed ==
    SomeAlreadyDeclared =>
        /\ last.exc.type = "ParameterAlreadyDeclaredException"
        /\ _parameters = last.pre
        /\ last.cb_calls = <<>>
        /\ last.events = <<>>

(***************************************************************************)
(* C8 as amended: declare on a list in which any fully qualified name is   *)
(* already in the store always fails and leaves the store unchanged,       *)
(* without invoking the callback or publishing an event; it fails with     *)
(* ParameterAlreadyDeclared when every name of the list is valid, and with *)
(* InvalidParameterException when the list also holds an invalid name,     *)
(* because all names are validated before the store is consulted.          *)
(***************************************************************************)
C8_DeclaredNameFailsDeclare ==
    SomeAlreadyDeclared =>
        /\ last.exc.type = IF SomeInvalid THEN "InvalidParameterException"
                           ELSE "ParameterAlreadyDeclaredException"
        /\ _parameters = last.pre
        /\ last.cb_calls = <<>>
        /\ last.events = <<>>

\* A list of two valid names, the second already declared, the first not.
C8_Witness ==
    /\ SomeAlreadyDeclared
    /\ ~SomeInvalid
    /\ Len(Tuples) = 2
    /\ Declared[1].name \notin DOMAIN last.pre
    /\ Declared[2].name \in DOMAIN last.pre
    /\ last.exc.type = "ParameterAlreadyDeclaredException"

(***************************************************************************)
(* C9 as claimed: for valid names not yet declared (here: a list that      *)
(* names no parameter twice) and every declared value, of any parameter    *)
(* type, with the callback accepting, declare returns normally, get on     *)
(* each declared name right after it returns a parameter with the declared *)
(* type and value, and declare itself returned that same parameter for     *)
(* the name.                                                               *)
(***************************************************************************)
CallbackAcceptsEach ==
    \/ last.callback = "None"
    \/ \A i \in 1..Len(Tuples) : CallCallback(last.callback, <<Declared[i]>>).successful

C9_AsClaimed ==
    (/\ DeclareCall
     /\ ~SomeInvalid
     /\ ~SomeAlreadyDeclared
     /\ Distinct(Declared)
     /\ CallbackAcceptsEach) =>
        /\ last.exc = NoException
        /\ Len(last.ret) = Len(Tuples)
        /\ \A i \in 1..Len(Tuples) :
               LET got == get_parameter(_parameters, _allow_undeclared_parameters,
                                        Declared[i].name)
               IN  /\ got.exc = NoException
                   /\ got.ret[1].type_ = Tuples[i][2].type_
                   /\ got.ret[1].value = Tuples[i][2].value
                   /\ last.ret[i] = got.ret[1]

(***************************************************************************)
(* C10 as claimed: declare of a list applies the parameters one by one in  *)
(* list order, calling the callback once per parameter; if the callback    *)
(* rejects the k-th parameter, declare raises                              *)
(* InvalidParameterValueException, the parameters before k stay declared   *)
(* (each name holding what the last entry before k for it declared), and   *)
(* the k-th and all later parameters are not declared.                     *)
(***************************************************************************)
Rejecting ==
    { i \in 1..Len(Tuples) :
        last.callback # "None" /\ ~CallCallback(last.callback, <<Declared[i]>>).successful }
FirstRejected == CHOOSE k \in Rejecting : \A i \in Rejecting : k <= i

C10_AsClaimed ==
    (/\ DeclareCall
     /\ ~SomeInvalid
     /\ ~SomeAlreadyDeclared
     /\ Rejecting # {}) =>
        LET k == FirstRejected
        IN  /\ last.exc = Exception("InvalidParameterValueException",
                                    <<Declared[k].name, Declared[k].value>>)
            /\ Len(last.cb_calls) = k
            /\ \A i \in 1..k : last.cb_calls[i].args = <<Declared[i]>>
            /\ \A i \in 1..(k - 1) :
                   /\ Declared[i].name \in DOMAIN _parameters
                   /\ (\A j \in (i + 1)..(k - 1) : Declared[j].name # Declared[i].name)
                          => _parameters[Declared[i].name] = Declared[i]
            /\ \A j \in k..Len(Tuples) :
                   Declared[j].name \in DOMAIN _parameters =>
                       \E i \in 1..(k - 1) : Declared[i].name = Declared[j].name

(***************************************************************************)
(* Vocabulary of the claims about undeclare_parameter.                     *)
(***************************************************************************)
UndeclareCall == last.op = "undeclare_parameter"
Target == last.args[1]
TargetDeclared == UndeclareCall /\ Target \in DOMAIN last.pre
TargetReadOnly == TargetDeclared /\ last.pre[Target].descriptor.read_only

(***************************************************************************)
(* C11: undeclare_parameter on a parameter whose stored descriptor is      *)
(* read_only always fails with ParameterImmutableException and leaves that *)
(* parameter present and unchanged, and the rest of the map unchanged.     *)
(***************************************************************************)
C11_ReadOnlyCannotBeUndeclared ==
    TargetReadOnly =>
        /\ last.exc = Exception("ParameterImmutableException", <<Target>>)
        /\ Target \in DOMAIN _parameters
        /\ _parameters[Target] = last.pre[Target]
        /\ _parameters = last.pre

\* A read-only parameter was the target, next to another declared parameter.
C11_Witness ==
    /\ TargetReadOnly
    /\ last.exc.type = "ParameterImmutableException"
    /\ DOMAIN last.pre = ValidNames

(***************************************************************************)
(* C12: undeclare_parameter on a declared parameter that is not read_only  *)
(* succeeds, removes exactly that entry, leaves every other entry          *)
(* unchanged, does not invoke the validation callback (registered or not)  *)
(* and publishes no parameter event.                                       *)
(***************************************************************************)
C12_UndeclareRemovesExactlyOne ==
    (TargetDeclared /\ ~TargetReadOnly) =>
        /\ last.exc = NoException
        /\ DOMAIN _parameters = DOMAIN last.pre \ {Target}
        /\ \A name \in DOMAIN _parameters : _parameters[name] = last.pre[name]
        /\ last.cb_calls = <<>>
        /\ last.events = <<>>
        /\ last.accepted = 0

\* A callback is registered, and the target was removed from beside another
\* parameter.
C12_Witness ==
    /\ TargetDeclared
    /\ ~TargetReadOnly
    /\ last.callback # "None"
    /\ DOMAIN last.pre = ValidNames
    /\ DOMAIN _parameters = ValidNames \ {Target}

(***************************************************************************)
(* C13: undeclare_parameter on a name that is not in the map fails with    *)
(* ParameterNotDeclaredException and changes nothing, whether undeclared   *)
(* parameters are allowed or not; so a second undeclare_parameter of the   *)
(* same name, right after one that succeeded, fails that way.              *)
(***************************************************************************)
C13_AbsentCannotBeUndeclared ==
    UndeclareCall =>
        /\ ~TargetDeclared =>
               /\ last.exc = Exception("ParameterNotDeclaredException", <<Target>>)
               /\ _parameters = last.pre
               /\ last.cb_calls = <<>>
               /\ last.events = <<>>
        /\ last.exc = NoException =>
               LET again == undeclare_parameter(Context(_parameters),
                                                _parameters_callback, Target)
               IN  /\ again.exc = Exception("ParameterNotDeclaredException", <<Target>>)
                   /\ again.ctx = Context(_parameters)

\* An absent name was the target although undeclared parameters are allowed.
C13_Witness ==
    /\ UndeclareCall
    /\ ~TargetDeclared
    /\ _allow_undeclared_parameters
    /\ last.exc.type = "ParameterNotDeclaredException"
    /\ _parameters # << >>

\* The same with undeclared parameters not allowed.
C13_WitnessDisallowed ==
    /\ UndeclareCall
    /\ ~TargetDeclared
    /\ ~_allow_undeclared_parameters
    /\ last.exc.type = "ParameterNotDeclaredException"

\* A first undeclare_parameter that succeeded, the one a second follows.
C13_WitnessFirstOfTwo ==
    /\ UndeclareCall
    /\ last.exc = NoException

(***************************************************************************)
(* Vocabulary of the claims about set_parameters.                          *)
(***************************************************************************)
SetCall == last.op = "set_parameters"
SetReturned == SetCall /\ last.exc = NoException
\* What the callback registered during the call says of entry i alone.
Accepts(i) ==
    \/ last.callback = "None"
    \/ CallCallback(last.callback, <<Batch[i]>>).successful

(***************************************************************************)
(* C14: in every reachable state, whatever declare_parameters,             *)
(* set_parameters, set_parameters_atomically and undeclare_parameter calls *)
(* led to it, no parameter in the map has type NOT_SET; a set that is      *)
(* accepted for a stored parameter with type NOT_SET removes the name from *)
(* the map (the last entry for a name deciding).                           *)
(***************************************************************************)
C14_NoStoredNotSet ==
    /\ \A name \in DOMAIN _parameters :
           /\ _parameters[name].type_ # NOT_SET
           /\ _parameters[name].name = name
    /\ AtomicAccepted =>
           \A i \in 1..Len(Batch) :
               (Batch[i].type_ = NOT_SET /\ LastForName(Batch, i))
                   => Batch[i].name \notin DOMAIN _parameters
    /\ SetReturned =>
           \A i \in 1..Len(Batch) :
               (Batch[i].type_ = NOT_SET /\ last.ret[i].successful /\ LastForName(Batch, i))
                   => Batch[i].name \notin DOMAIN _parameters

\* A stored parameter was set to NOT_SET in an accepted batch that also set
\* another one, and it is gone.
C14_Witness ==
    /\ AtomicAccepted
    /\ \E i \in 1..Len(Batch) :
           /\ Batch[i].type_ = NOT_SET
           /\ Batch[i].name \in DOMAIN last.pre
           /\ Batch[i].name \notin DOMAIN _parameters
    /\ _parameters # << >>

\* The same through set_parameters.
C14_WitnessSet ==
    /\ SetReturned
    /\ \E i \in 1..Len(Batch) :
           /\ Batch[i].type_ = NOT_SET
           /\ Batch[i].name \in DOMAIN last.pre
           /\ Batch[i].name \notin DOMAIN _parameters

\* The entries of the list whose name was not in the map when the call began.
Absent == { i \in 1..Len(Batch) : Batch[i].name \notin DOMAIN last.pre }
FirstAbsent == CHOOSE k \in Absent : \A i \in Absent : k <= i
\* The accepted entries for a name among the first n of the list.
AcceptedFor(name, n) == { i \in 1..n : Batch[i].name = name /\ Accepts(i) }
\* What the first n entries, set one after the other, leave of a name.
LeftBy(name, n) ==
    LET A == AcceptedFor(name, n)
    IN  IF A = {}
        THEN Stored(last.pre, name)
        ELSE LET j == CHOOSE k \in A : \A i \in A : i <= k
             IN  IF Batch[j].type_ = NOT_SET THEN <<>> ELSE <<Batch[j]>>
\* The entries that find their name undeclared when their turn comes.
Undeclared == { i \in 1..Len(Batch) : LeftBy(Batch[i].name, i - 1) = <<>> }
\* The entry at which set_parameters stops, if it does.
Stops == SetCall /\ ~_allow_undeclared_parameters /\ Undeclared # {}
StopIndex == CHOOSE k \in Undeclared : \A i \in Undeclared : k <= i
\* How many entries were set or refused by the callback.
Attempted == IF Stops THEN StopIndex - 1 ELSE Len(Batch)

(***************************************************************************)
(* C15: with undeclared parameters disallowed, set_parameters fails with   *)
(* ParameterNotDeclaredException when any name in the list is absent from  *)
(* the map, and the check precedes any mutation: the map is unchanged when *)
(* set_parameters fails with ParameterNotDeclaredException.                *)
(***************************************************************************)
C15_AsClaimed ==
    SetCall =>
        /\ (~_allow_undeclared_parameters /\ Absent # {})
               => last.exc.type = "ParameterNotDeclaredException"
        /\ last.exc.type = "ParameterNotDeclaredException" => _parameters = last.pre

(***************************************************************************)
(* C15, as the code has it: with undeclared parameters disallowed,         *)
(* set_parameters fails with ParameterNotDeclaredException when any name   *)
(* in the list is absent from the map; the check is made for each entry    *)
(* when its turn comes: the entries before the failing one have been set   *)
(* (those the callback accepted) and stay set, so only entries before the  *)
(* first absent name can have changed the map, and the map is unchanged    *)
(* (no callback call, no event) when the first entry is the absent one.    *)
(* With undeclared parameters allowed the exception is never raised.       *)
(***************************************************************************)
C15_CheckedEntryByEntry ==
    SetCall =>
        /\ (~_allow_undeclared_parameters /\ Absent # {}) =>
               /\ last.exc.type = "ParameterNotDeclaredException"
               /\ \A name \in ValidNames :
                      /\ Stored(_parameters, name) = LeftBy(name, Attempted)
                      /\ Stored(_parameters, name) # Stored(last.pre, name)
                             => AcceptedFor(name, FirstAbsent - 1) # {}
               /\ 1 \in Absent =>
                      /\ _parameters = last.pre
                      /\ last.cb_calls = <<>>
                      /\ last.events = <<>>
        /\ _allow_undeclared_parameters => last.exc = NoException

\* The call failed at an absent name after an earlier entry changed the map.
C15_Witness ==
    /\ SetCall
    /\ ~_allow_undeclared_parameters
    /\ Absent # {}
    /\ last.exc.type = "ParameterNotDeclaredException"
    /\ _parameters # last.pre

(***************************************************************************)
(* C16: set_parameters sets the parameters in list order; when setting one *)
(* fails because it is not declared, the parameters set before it stay set *)
(* and no attempt is made to set those after it.                           *)
(***************************************************************************)
C16_InOrderUntilNotDeclared ==
    SetCall =>
        /\ Stops <=> last.exc.type = "ParameterNotDeclaredException"
        /\ \A name \in ValidNames : Stored(_parameters, name) = LeftBy(name, Attempted)
        /\ last.callback # "None" =>
               /\ Len(last.cb_calls) = Attempted
               /\ \A i \in 1..Attempted : last.cb_calls[i].args = <<Batch[i]>>
        /\ last.callback = "None" => last.cb_calls = <<>>
        /\ Len(last.events) <= Attempted

\* The call stopped at its second entry, the first having been set, with a
\* callback registered that was called once.
C16_Witness ==
    /\ Stops
    /\ StopIndex = 2
    /\ Len(Batch) = 2
    /\ last.callback # "None"
    /\ Len(last.cb_calls) = 1
    /\ Stored(_parameters, Batch[1].name) = <<Batch[1]>>
    /\ _parameters # last.pre

\* The entries the callback refused, among those whose turn came.
Refused == { i \in 1..Attempted : ~Accepts(i) }
\* The map as it was once entry i had had its turn.
MapAfter(i) == IF i < Attempted THEN last.cb_calls[i + 1].parameters ELSE _parameters

(***************************************************************************)
(* C17: in set_parameters a rejection by the callback never raises and     *)
(* does not keep the following entries from being set: the rejected entry  *)
(* leaves the map as it was, the entries after it still get their turn,    *)
(* and the list returned holds one result per entry of the input, in       *)
(* order, with successful false for the rejected entries and for no other; *)
(* in declare_parameters the same rejection raises                         *)
(* InvalidParameterValueException.                                         *)
(***************************************************************************)
C17_RejectionDoesNotStopSet ==
    /\ SetCall =>
           /\ last.exc.type \in {"None", "ParameterNotDeclaredException"}
           /\ last.callback # "None" =>
                  /\ Len(last.cb_calls) = Attempted
                  /\ \A i \in 1..Attempted : last.cb_calls[i].args = <<Batch[i]>>
           /\ \A i \in Refused : MapAfter(i) = last.cb_calls[i].parameters
           /\ Refused # {} /\ ~Stops => last.exc = NoException
    /\ SetReturned =>
           /\ Len(last.ret) = Len(Batch)
           /\ \A i \in 1..Len(Batch) :
                  /\ last.ret[i] = callback_result(last.callback, <<Batch[i]>>)
                  /\ last.ret[i].successful <=> i \notin Refused
    /\ (DeclareCall /\ ~SomeInvalid /\ ~SomeAlreadyDeclared /\ Rejecting # {})
           => last.exc.type = "InvalidParameterValueException"

\* The first of two entries was rejected, the second was set and changed the
\* map, and both results came back.
C17_Witness ==
    /\ SetReturned
    /\ Len(Batch) = 2
    /\ Refused = {1}
    /\ _parameters # last.pre
    /\ Stored(_parameters, Batch[2].name) = <<Batch[2]>>
    /\ Len(last.ret) = 2

\* The same rejection on the declare path.
C17_WitnessDeclare ==
    /\ DeclareCall
    /\ Rejecting # {}
    /\ last.exc.type = "InvalidParameterValueException"

\* The accepted entries among the first n of the list.
AcceptedIn(n) == { i \in 1..n : Accepts(i) }
\* The entries of an event, whatever their kind.
Entries(event) ==
    event.new_parameters \o event.changed_parameters \o event.deleted_parameters

(***************************************************************************)
(* C18: set_parameters calls the callback once per parameter, each time    *)
(* with that parameter alone, and publishes one parameter event per        *)
(* parameter that was set: the events published by one call are as many as *)
(* the successful results it returns, each names no parameter but the one  *)
(* it was published for, and none is published for a rejected entry.       *)
(***************************************************************************)
C18_OneEventPerParameterSet ==
    /\ SetCall =>
           /\ last.callback # "None" =>
                  /\ Len(last.cb_calls) = Attempted
                  /\ \A i \in 1..Attempted : last.cb_calls[i].args = <<Batch[i]>>
           /\ last.callback = "None" => last.cb_calls = <<>>
           /\ Len(last.events) = Cardinality(AcceptedIn(Attempted))
           /\ last.accepted = Len(last.events)
           /\ \A i \in AcceptedIn(Attempted) :
                  LET entries == Entries(last.events[Cardinality(AcceptedIn(i))])
                  IN  /\ Len(entries) <= 1
                      /\ \A k \in 1..Len(entries) : entries[k] = to_parameter_msg(Batch[i])
    /\ SetReturned =>
           Len(last.events) =
               Cardinality({ i \in 1..Len(last.ret) : last.ret[i].successful })

\* Of two entries the callback took the first and refused the second: one
\* event for two callback calls.
C18_Witness ==
    /\ SetReturned
    /\ Len(Batch) = 2
    /\ Refused = {2}
    /\ Len(last.cb_calls) = 2
    /\ Len(last.events) = 1
    /\ Entries(last.events[1]) = <<to_parameter_msg(Batch[1])>>

(***************************************************************************)
(* Vocabulary of the claims about get_parameter and get_parameter_or.      *)
(***************************************************************************)
GetCall == last.op = "get_parameter"
GetOrCall == last.op = "get_parameter_or"
Wanted == last.args[1]
Alternative == last.args[2]
\* The parameter made up for a name that is not in the map.
Synthetic(name) == Parameter(name, NOT_SET, "None", DefaultDescriptor)
\* The call left the node as it found it.
NothingDone ==
    /\ _parameters = last.pre
    /\ last.cb_calls = <<>>
    /\ last.events = <<>>
    /\ last.accepted = 0

(***************************************************************************)
(* C19: get_parameter(name) returns the stored Parameter when the name is  *)
(* in the map; when it is not and undeclared parameters are allowed, it    *)
(* returns a made-up NOT_SET parameter of that name without inserting it;  *)
(* when it is not and undeclared parameters are disallowed, it fails with  *)
(* ParameterNotDeclaredException.  The map is unchanged in all three       *)
(* cases.                                                                  *)
(***************************************************************************)
C19_GetParameter ==
    GetCall =>
        /\ Wanted \in DOMAIN last.pre =>
               /\ last.ret = <<last.pre[Wanted]>>
               /\ last.exc = NoException
        /\ (Wanted \notin DOMAIN last.pre /\ _allow_undeclared_parameters) =>
               /\ last.ret = <<Synthetic(Wanted)>>
               /\ last.exc = NoException
               /\ Wanted \notin DOMAIN _parameters
        /\ (Wanted \notin DOMAIN last.pre /\ ~_allow_undeclared_parameters) =>
               /\ last.ret = <<>>
               /\ last.exc = Exception("ParameterNotDeclaredException", <<Wanted>>)
        /\ NothingDone

\* A name that is not in the map was asked for with undeclared parameters
\* allowed, the map holding another name.
C19_Witness ==
    /\ GetCall
    /\ Wanted \notin DOMAIN last.pre
    /\ _allow_undeclared_parameters
    /\ last.ret = <<Synthetic(Wanted)>>
    /\ _parameters # << >>

\* The two other cases.
C19_WitnessStored == GetCall /\ Wanted \in DOMAIN last.pre /\ last.ret # <<>>
C19_WitnessFails ==
    GetCall /\ Wanted \notin DOMAIN last.pre /\ last.exc.type = "ParameterNotDeclaredException"

(***************************************************************************)
(* C20: get_parameter_or(name, alternative) returns the stored parameter   *)
(* when the name is in the map, else the alternative the caller gave, or a *)
(* made-up NOT_SET parameter of that name when none was given; it never    *)
(* fails, whether undeclared parameters are allowed or not, and never      *)
(* declares: map unchanged, callback not invoked, no event.                *)
(***************************************************************************)
C20_GetParameterOr ==
    GetOrCall =>
        /\ last.exc = NoException
        /\ Wanted \in DOMAIN last.pre => last.ret = <<last.pre[Wanted]>>
        /\ (Wanted \notin DOMAIN last.pre /\ Alternative # <<>>) => last.ret = Alternative
        /\ (Wanted \notin DOMAIN last.pre /\ Alternative = <<>>)
               => last.ret = <<Synthetic(Wanted)>>
        /\ NothingDone

\* With undeclared parameters disallowed and a callback registered, a name
\* that is not in the map was asked for and the caller's alternative, a
\* parameter of another name, came back.
C20_Witness ==
    /\ GetOrCall
    /\ ~_allow_undeclared_parameters
    /\ last.callback # "None"
    /\ Wanted \notin DOMAIN last.pre
    /\ Alternative # <<>>
    /\ Alternative[1].name # Wanted
    /\ last.ret = Alternative

\* The two other cases.
C20_WitnessStored == GetOrCall /\ Wanted \in DOMAIN last.pre /\ Alternative # <<>>
C20_WitnessSynthetic ==
    GetOrCall /\ Wanted \notin DOMAIN last.pre /\ last.ret = <<Synthetic(Wanted)>>

(***************************************************************************)
(* Vocabulary of the claims about set_parameters_callback.                 *)
(***************************************************************************)
RegisterCall == last.op = "set_parameters_callback"
Registered == last.args[1]
\* The calls that consult the callback.
ConsultingCall == last.op \in {"declare_parameters", "set_parameters", "set_parameters_atomically"}

\* The callback in force after each step is the one registered by the step,
\* if it registers one, and the one in force before it otherwise.
LastRegistrationWins ==
    /\ (last' # NoCall /\ last'.op = "set_parameters_callback")
           => _parameters_callback' = last'.args[1]
    /\ (last' = NoCall \/ last'.op # "set_parameters_callback")
           => _parameters_callback' = _parameters_callback

\* A call consults the callback in force, and no other.
ConsultsCallbackInForce ==
    ConsultingCall =>
        /\ last.callback = _parameters_callback
        /\ \A i \in 1..Len(last.cb_calls) : last.cb_calls[i].callback = _parameters_callback
        /\ _parameters_callback = "None" => last.cb_calls = <<>>

(***************************************************************************)
(* C21: at most one validation callback is in force at a time: registering *)
(* a callback replaces the one registered before, so whatever the sequence *)
(* of registrations, every later declare_parameters, set_parameters and    *)
(* set_parameters_atomically consults the most recently registered         *)
(* callback and never an earlier one.                                      *)
(***************************************************************************)
C21_LastRegisteredCallbackOnly ==
    /\ [](RegisterCall => _parameters_callback = Registered)
    /\ []ConsultsCallbackInForce
    /\ [][LastRegistrationWins]_vars

\* A registration replaced a different callback.
C21_Witness ==
    /\ RegisterCall
    /\ last.callback # "None"
    /\ last.callback # Registered
    /\ _parameters_callback = Registered

\* A call consulted the callback in force once for each of two parameters.
C21_WitnessConsulted ==
    /\ SetCall
    /\ Len(last.cb_calls) = 2
    /\ last.cb_calls[1].callback = "reject_all"

(***************************************************************************)
(* Vocabulary of the claims about what the exceptions carry.               *)
(***************************************************************************)
RaisedAlreadyDeclared ==
    DeclareCall /\ last.exc.type = "ParameterAlreadyDeclaredException"
RaisedNotDeclared ==
    AtomicCall /\ last.exc.type = "ParameterNotDeclaredException"
\* The list handed to the exception's constructor.
Carried == last.exc.args[1]
\* The names of a list that were in the map when the call began, and those
\* that were not, in list order.
RECURSIVE NamesPresent(_, _)
NamesPresent(seq, i) ==
    IF i > Len(seq) THEN <<>>
    ELSE IF seq[i].name \in DOMAIN last.pre
         THEN <<seq[i].name>> \o NamesPresent(seq, i + 1)
         ELSE NamesPresent(seq, i + 1)
RECURSIVE NamesAbsent(_, _)
NamesAbsent(seq, i) ==
    IF i > Len(seq) THEN <<>>
    ELSE IF seq[i].name \notin DOMAIN last.pre
         THEN <<seq[i].name>> \o NamesAbsent(seq, i + 1)
         ELSE NamesAbsent(seq, i + 1)
\* The list carried is the given list of names.
CarriesNames(names) ==
    /\ Len(Carried) = Len(names)
    /\ \A i \in 1..Len(Carried) :
           /\ Carried[i] \notin BOOLEAN
           /\ Carried[i] = names[i]

(***************************************************************************)
(* C22: the ParameterAlreadyDeclaredException raised by declare_parameters *)
(* carries exactly the names of the list that were already in the map, and *)
(* the ParameterNotDeclaredException raised by set_parameters_atomically   *)
(* the names of the batch that were not declared.                          *)
(***************************************************************************)
C22_AsClaimed ==
    /\ RaisedAlreadyDeclared => CarriesNames(NamesPresent(Declared, 1))
    /\ RaisedNotDeclared => CarriesNames(NamesAbsent(Batch, 1))

\* What the exceptions carry instead: for each entry of the list after the
\* first offending one, whether it offends too; never a name.
C22_CarriesFlagsAfterFirst ==
    /\ RaisedAlreadyDeclared =>
           LET flags == [i \in 1..Len(Declared) |-> Declared[i].name \in DOMAIN last.pre]
               k == CHOOSE i \in 1..Len(flags) : flags[i] /\ \A j \in 1..(i - 1) : ~flags[j]
           IN  Carried = SubSeq(flags, k + 1, Len(flags))
    /\ RaisedNotDeclared =>
           LET flags == [i \in 1..Len(Batch) |-> Batch[i].name \notin DOMAIN last.pre]
               k == CHOOSE i \in 1..Len(flags) : flags[i] /\ \A j \in 1..(i - 1) : ~flags[j]
           IN  Carried = SubSeq(flags, k + 1, Len(flags))

\* declare_parameters of one declared name raised with an empty list.
C22_Witness ==
    /\ RaisedAlreadyDeclared
    /\ Len(Declared) = 1
    /\ Carried = <<>>

(***************************************************************************)
(* Vocabulary of the claims about descriptors.                             *)
(***************************************************************************)
\* The names a set call found in the map and left in it, no entry of the
\* list having asked for their removal.
Kept ==
    { name \in DOMAIN last.pre \cap DOMAIN _parameters :
        \A i \in 1..Len(Batch) : Batch[i].name = name => Batch[i].type_ # NOT_SET }
\* The names of the list that were stored read_only when the call began.
ReadOnlyBefore(name) ==
    name \in DOMAIN last.pre /\ last.pre[name].descriptor.read_only
\* What undeclare_parameter would do now.
UndeclareNow(name) == undeclare_parameter(Context(_parameters), _parameters_callback, name)

(***************************************************************************)
(* C23: a set_parameters or set_parameters_atomically on a declared        *)
(* parameter replaces its value and retains its descriptor: after a        *)
(* successful set the stored descriptor, read_only in particular, is the   *)
(* one the parameter had, so a parameter declared read_only still fails    *)
(* undeclare_parameter with ParameterImmutableException for as long as it  *)
(* stays in the map.                                                       *)
(***************************************************************************)
C23_AsClaimed ==
    (AtomicAccepted \/ SetReturned) =>
        \A name \in Kept :
            /\ _parameters[name].descriptor = last.pre[name].descriptor
            /\ ReadOnlyBefore(name) =>
                   UndeclareNow(name).exc.type = "ParameterImmutableException"

\* What the code does instead: the stored Parameter, descriptor included, is
\* the object the caller handed to the last accepted entry for the name.
C23_DescriptorIsTheCallersOwn ==
    AtomicAccepted =>
        \A i \in 1..Len(Batch) :
            (Batch[i].type_ # NOT_SET /\ LastForName(Batch, i)) =>
                /\ _parameters[Batch[i].name] = Batch[i]
                /\ _parameters[Batch[i].name].descriptor = Batch[i].descriptor

\* A read_only parameter was set once, with a parameter of the default
\* descriptor, and can now be undeclared.
C23_Witness ==
    /\ AtomicAccepted
    /\ Len(Batch) = 1
    /\ ReadOnlyBefore(Batch[1].name)
    /\ Batch[1].name \in Kept
    /\ Batch[1].descriptor = DefaultDescriptor
    /\ ~_parameters[Batch[1].name].descriptor.read_only
    /\ UndeclareNow(Batch[1].name).exc = NoException

(***************************************************************************)
(* C24: read_only keeps a parameter from being undeclared and from nothing *)
(* else: set_parameters and set_parameters_atomically on a read_only       *)
(* parameter are not refused on its account (the verdict is the            *)
(* callback's), an accepted set overwrites the value, and an accepted set  *)
(* to NOT_SET removes the parameter from the map and records it as deleted *)
(* in the event.                                                           *)
(***************************************************************************)
C24_ReadOnlyBlocksOnlyUndeclare ==
    /\ AtomicPassed => last.ret = <<callback_result(last.callback, Batch)>>
    /\ SetReturned =>
           \A i \in 1..Len(Batch) : last.ret[i] = callback_result(last.callback, <<Batch[i]>>)
    /\ AtomicAccepted =>
           \A i \in 1..Len(Batch) :
               (ReadOnlyBefore(Batch[i].name) /\ LastForName(Batch, i)) =>
                   IF Batch[i].type_ = NOT_SET
                   THEN /\ Batch[i].name \notin DOMAIN _parameters
                        /\ Batch[i].name \in DeletedNames
                   ELSE /\ _parameters[Batch[i].name].type_ = Batch[i].type_
                        /\ _parameters[Batch[i].name].value = Batch[i].value
    /\ TargetReadOnly => last.exc.type = "ParameterImmutableException"

\* An accepted batch gave one read_only parameter a new value and removed
\* another.
C24_Witness ==
    /\ AtomicAccepted
    /\ Len(Batch) = 2
    /\ \A i \in 1..2 : ReadOnlyBefore(Batch[i].name)
    /\ Batch[1].type_ = NOT_SET
    /\ Batch[2].type_ # NOT_SET
    /\ Batch[2].value # last.pre[Batch[2].name].value
    /\ Batch[1].name \notin DOMAIN _parameters
    /\ DeletedNames = {Batch[1].name}
    /\ _parameters[Batch[2].name].value = Batch[2].value

(***************************************************************************)
(* C25: a name that is not in the map gets into it through                 *)
(* declare_parameters, or through set_parameters or                        *)
(* set_parameters_atomically when undeclared parameters are allowed, and   *)
(* in no other way: with undeclared parameters disallowed, no              *)
(* set_parameters or set_parameters_atomically call adds a name that was   *)
(* absent when the call began.                                             *)
(***************************************************************************)
C25_NoImplicitDeclareUnlessAllowed ==
    last # NoCall =>
        \A name \in DOMAIN _parameters \ DOMAIN last.pre :
            \/ DeclareCall
            \/ /\ SetCall \/ AtomicCall
               /\ _allow_undeclared_parameters
               /\ name \in Names(Batch)

\* With undeclared parameters disallowed, a batch naming a declared and an
\* undeclared parameter was refused whole.
C25_Witness ==
    /\ AtomicCall
    /\ ~_allow_undeclared_parameters
    /\ Names(Batch) \cap DOMAIN last.pre # {}
    /\ Names(Batch) \ DOMAIN last.pre # {}
    /\ last.exc.type = "ParameterNotDeclaredException"
    /\ DOMAIN _parameters = DOMAIN last.pre

\* With undeclared parameters allowed, a set added a name.
C25_WitnessAllowed ==
    /\ SetCall
    /\ _allow_undeclared_parameters
    /\ DOMAIN _parameters \ DOMAIN last.pre # {}

\* With undeclared parameters disallowed, set_parameters changed a declared
\* parameter and then stopped at an undeclared one.
C25_WitnessSet ==
    /\ SetCall
    /\ ~_allow_undeclared_parameters
    /\ Absent # {}
    /\ _parameters # last.pre
    /\ DOMAIN _parameters \subseteq DOMAIN last.pre

(***************************************************************************)
(* Vocabulary of the claim about threads (SpecThreads).                    *)
(***************************************************************************)
\* A thread is in the loop of an accepted batch of two parameters or more,
\* each of a name of its own.
SettingBatch ==
    /\ setter.pc = "loop"
    /\ Len(setter.parameter_list) >= 2
    /\ Distinct(setter.parameter_list)
\* Another thread has just read the map.
Observing == observed # NotObserving
\* The map once the whole batch is applied.
FullyApplied ==
    apply_parameters([parameters |-> setter.pre, event |-> EmptyEvent],
                     setter.parameter_list, 1).parameters

(***************************************************************************)
(* C26: set_parameters_atomically changes the map with no partial          *)
(* visibility: no observer, such as a get_parameter or has_parameter of    *)
(* another caller, ever reads a map in which only part of an accepted      *)
(* batch of two or more parameters has been applied, even when callbacks   *)
(* run concurrently under a multi-threaded executor.                       *)
(***************************************************************************)
C26_AsClaimed ==
    (Observing /\ SettingBatch) =>
        \/ _parameters = setter.pre
        \/ _parameters = FullyApplied

\* Another thread found the first parameter of a batch of two in the map
\* and the second one not yet.
C26_Witness ==
    /\ Observing
    /\ SettingBatch
    /\ setter.i = 2
    /\ observed.op = "has_parameter"
    /\ observed.name = setter.parameter_list[2].name
    /\ observed.ret = <<FALSE>>
    /\ setter.parameter_list[1].name \in DOMAIN _parameters
    /\ setter.parameter_list[1].name \notin DOMAIN setter.pre
    /\ observed.name \in DOMAIN FullyApplied

\* With one thread, the callback of a batch sees the map as it was before
\* the batch.
C26_CallbackSeesMapBefore ==
    (AtomicCall /\ last.cb_calls # <<>>) => last.cb_calls[1].parameters = last.pre

(***************************************************************************)
(* C27: declare_parameters never changes or removes a parameter whose name *)
(* was in the map before the call, whether it returns or raises: it raises *)
(* before changing anything when a name is invalid or already declared,    *)
(* and otherwise touches only names of its list, all absent when the call  *)
(* began.  A name given twice in one list is not taken for already         *)
(* declared: both entries are applied and the later one prevails.          *)
(***************************************************************************)
C27_DeclareLeavesDeclaredAlone ==
    DeclareCall =>
        /\ \A name \in DOMAIN last.pre :
               /\ name \in DOMAIN _parameters
               /\ _parameters[name] = last.pre[name]
        /\ \A name \in DOMAIN _parameters \ DOMAIN last.pre : name \in Names(Declared)
        /\ (SomeInvalid \/ SomeAlreadyDeclared) =>
               /\ last.exc.type \in {"InvalidParameterException",
                                     "ParameterAlreadyDeclaredException"}
               /\ _parameters = last.pre
               /\ last.cb_calls = <<>>
               /\ last.events = <<>>
        /\ (~SomeInvalid /\ ~SomeAlreadyDeclared /\ Rejecting = {}) =>
               /\ Len(last.events) = Len(Declared)
               /\ last.callback # "None" => Len(last.cb_calls) = Len(Declared)
               /\ \A i \in 1..Len(Declared) :
                      LastForName(Declared, i) =>
                          Stored(_parameters, Declared[i].name) =
                              IF Declared[i].type_ = NOT_SET THEN <<>> ELSE <<Declared[i]>>

\* Beside a declared parameter, which is as it was, one name was declared
\* twice in one list with two values, and holds the second.
C27_Witness ==
    /\ DeclareCall
    /\ last.pre # << >>
    /\ last.exc = NoException
    /\ Len(Declared) = 2
    /\ Declared[1].name = Declared[2].name
    /\ Declared[1].value # Declared[2].value
    /\ Declared[1].type_ # NOT_SET
    /\ Stored(_parameters, Declared[2].name) = <<Declared[2]>>
    /\ Len(last.events) = 2

\* A list naming a declared parameter raised and changed nothing.
C27_WitnessRaised ==
    /\ SomeAlreadyDeclared
    /\ Names(Declared) \ DOMAIN last.pre # {}
    /\ last.exc.type = "ParameterAlreadyDeclaredException"

(***************************************************************************)
(* Vocabulary of the claim about destroy_node (SpecEntities).              *)
(***************************************************************************)
\* The call in hand is destroy_node, made by the caller or by __del__.
DestroyNodeCall == last.op \in {"destroy_node", "__del__"}
\* It found the node alive; it found it destroyed already.
FirstDestroyNode == DestroyNodeCall /\ last.pre._handle # "None"
DestroyNodeAgain == DestroyNodeCall /\ last.pre._handle = "None"
\* The six lists of a node value, one after the other.
Listed(n) ==
    n.publishers \o n.subscriptions \o n.clients \o n.services \o n.timers \o n.guards
\* The handles of entities, as against those of clocks and of the node.
EntityHandles == { h \in Handles : h[1] \in Kinds }
\* The entities that have been handed to a destroy call.
DestroyedEntities == { h \in EntityHandles : destroyed[h] > 0 }
\* No handle has been handed to a destroy call twice.
DestroyedOnceAtMost == \A h \in Handles : destroyed[h] <= 1

(***************************************************************************)
(* C28: destroy_node frees every entity created by the node: after it      *)
(* returns, the publishers, subscriptions, clients, services, timers and   *)
(* guards lists are all empty and the handle is None, each entity having   *)
(* been destroyed exactly once; calling it again, from __del__ included,   *)
(* is a no-op that returns True and destroys nothing a second time; an     *)
(* entity removed earlier by its destroy_* method is not destroyed again.  *)
(***************************************************************************)
C28_AsClaimed ==
    /\ DestroyedOnceAtMost
    /\ DestroyNodeCall =>
           /\ last.ret = <<TRUE>>
           /\ _handle = "None"
           /\ Listed(Node) = <<>>
           /\ Cardinality(DestroyedEntities) = created + 1
           /\ destroyed[NodeHandle] = 1
    /\ DestroyNodeAgain => Node = last.pre

\* What holds: the destroy_node that finds the node alive empties the six
\* lists and destroys each entity in them, the clock of each timer and the
\* node's handle once; entities removed before are not destroyed again; a
\* later destroy_node returns True and does nothing, whatever is in the
\* lists.
C28_FirstDestroyNodeFreesAll ==
    /\ DestroyedOnceAtMost
    /\ DestroyNodeCall =>
           /\ last.ret = <<TRUE>>
           /\ _handle = "None"
           /\ destroyed[NodeHandle] = 1
    /\ FirstDestroyNode =>
           /\ Listed(Node) = <<>>
           /\ Cardinality(DestroyedEntities) = created + 1
           /\ \A h \in Handles :
                  destroyed[h] = last.pre.destroyed[h] +
                      (IF \/ h = NodeHandle
                          \/ contains(Listed(last.pre), h)
                          \/ h[1] = "clock" /\ contains(last.pre.timers, <<"timer", h[2]>>)
                       THEN 1 ELSE 0)
    /\ DestroyNodeAgain => Node = last.pre

\* A timer was made on a destroyed node; destroy_node, called again, left it
\* in its list and did not destroy it.
C28_Witness ==
    /\ DestroyNodeAgain
    /\ timers # <<>>
    /\ \A i \in 1..Len(timers) : destroyed[timers[i]] = 0
    /\ last.ret = <<TRUE>>

\* destroy_node found a timer in its list, another entity having been
\* removed by its destroy_* method before, and destroyed what was left.
C28_WitnessFirst ==
    /\ last # NoCall
    /\ last.op = "destroy_node"
    /\ FirstDestroyNode
    /\ last.pre.timers # <<>>
    /\ \E h \in EntityHandles : last.pre.destroyed[h] = 1
    /\ Cardinality(DestroyedEntities) = 3

====
